---------------------------- MODULE Spec2Model ----------------------------
(***************************************************************************)
(* Hopium Lab web client: the demo wallet ledger (hooks/useWallet), the    *)
(* single-simulation page (app/page.tsx, Home) with its event-stream       *)
(* decoder, the harness page (app/lab/page.tsx, Lab) and its staked        *)
(* variant, and the components that derive views from the posts.           *)
(*                                                                         *)
(* One state of the model is the state of one mounted page between two     *)
(* turns of the JavaScript event loop.  An action is one turn: an event    *)
(* handler, or the continuation of an async function from one await to     *)
(* the next, together with the React state updates it queues.  A callback  *)
(* built by useCallback sees the state of the render that built it; the    *)
(* closure of a running async function keeps the callbacks of the render   *)
(* that started it, which is what the variable cap records.                *)
(***************************************************************************)
EXTENDS Integers, Sequences, FiniteSets, TLC

VARIABLES
    view,            \* the page or component mounted: "hook", "home", "lab",
                     \* "staked", "threads", "chart", "persona"
    wallet,          \* useWallet: useState<WalletState>
    pendingStake,    \* useWallet: useState<number | null>
    outstanding,     \* tokens debited by stake() and not yet settled
    claims,          \* faucet claims that took effect since the last reset
    stored,          \* localStorage: the text under STORAGE_KEY
    mounts,          \* times the page has been loaded
    hist,            \* the last two calls made through the callbacks
                     \* of the latest render, oldest first
    nStakes,         \* number of accepted stakes so far
    traffic,         \* requests answered and frames sent by the backend so far
    runStake,        \* Home: the accepted stake of the latest run
    isRunning,       \* Home / Lab: useState(false)
    tweets,          \* Home: useState<TweetData[]>([])
    result,          \* Home: useState<SimulationResult | null>(null)
    error,           \* Home / Lab: useState<string | null>(null)
    progress,        \* Home: useState<Progress | null>(null)
    pc,              \* position of runSimulation / startHarness
    cap,             \* pendingStake as seen by the running closure
    capExp,          \* currentExperiment as seen by the running closure
    stream,          \* the response body, one character per element
    pos,             \* characters of stream already handed out by read()
    buffer,          \* runSimulation / startHarness: let buffer = ''
    experiments,     \* Lab: useState<Experiment[]>([])
    currentExperiment, \* Lab: useState<Experiment | null>(null)
    runProgress,     \* Lab: useState<{completed, total} | null>(null)
    refreshes,       \* Lab: fetchLeaderboard()/fetchLearnings() rounds issued
    controller,      \* Lab: the AbortController of the running closure
    cancelled,       \* Lab: stopHarness was called during the run
    alone,           \* Lab: the run began with no other run executing
    earlier,         \* Lab: earlier invocations of startHarness still executing
    stops,           \* Lab: stopHarness calls awaiting /harness/stop
    props,           \* TweetThread / SentimentChart / PersonaImpact: the tweets given
    rendered         \* what the component computed from them

walletVars == <<wallet, pendingStake, outstanding, claims, stored, mounts, hist,
               nStakes>>
ledgerVars == <<wallet, pendingStake, outstanding, claims, stored>>
homeVars == <<tweets, result, progress>>
runVars == <<isRunning, error, pc, cap, capExp, stream, pos, buffer>>
labVars == <<experiments, currentExperiment, runProgress, refreshes,
            controller, cancelled, alone, earlier, stops>>
compVars == <<props, rendered>>
vars == <<view, wallet, pendingStake, outstanding, claims, stored, mounts, hist,
          nStakes,
          traffic, runStake,
          isRunning, tweets, result, error, progress,
          pc, cap, capExp, stream, pos, buffer,
          experiments, currentExperiment, runProgress, refreshes,
          controller, cancelled, alone, earlier, stops,
          props, rendered>>

(***************************************************************************)
(* Bounds                                                                  *)
(***************************************************************************)
MaxStakes == 2
MaxMounts == 2
MaxFrames == 2
MaxTraffic == 3
MaxHarnessFrames == 4
MaxHarnessTraffic == 6
MaxStakedTraffic == 5
MaxLiveRuns == 2
MaxStops == 1
MaxPosts == 3
MaxChartPosts == 3
MaxHour == 2
MaxPersonaPosts == 3

\* null: NULL for the string- and record-valued state, NO_STAKE for the
\* number | null of pendingStake (no stake amount is negative)
NULL == "null"
NO_STAKE == -1
NO_RUN == [amount |-> NO_STAKE, before |-> NO_STAKE]

(***************************************************************************)
(* hooks/useWallet                                                         *)
(***************************************************************************)
INITIAL_BALANCE == 1000
\* BURN_RATE = 0.05, kept as a percentage: Math.floor(p * 0.05) is
\* (p * 5) \div 100 for every integer p the ledger can hold.
BURN_RATE == 5
HARNESS_STAKE_PER_EXPERIMENT == 50

DEFAULT_STATE ==
    [balance |-> INITIAL_BALANCE, totalStaked |-> 0,
     totalBurned |-> 0, simulationsRun |-> 0]

\* keys of STAKE_TIERS
STAKE_TIERS == {100, 500, 1000}

\* amounts the pages pass to stake(): a tier (Home) or
\* max_experiments * HARNESS_STAKE_PER_EXPERIMENT (Lab)
StakeAmounts == STAKE_TIERS \cup {1 * HARNESS_STAKE_PER_EXPERIMENT}

Floor100(n) == n \div 100

\* the hook's state as one value: what a call reads and what it leaves
Ledger ==
    [wallet |-> wallet, pendingStake |-> pendingStake,
     outstanding |-> outstanding, claims |-> claims]

stake_unchecked(L, amount) ==
    [L EXCEPT !.wallet.balance = @ - amount,
              !.pendingStake = amount,
              !.outstanding = @ + amount]

stake_reject_debits(L, amount) ==
    IF amount > L.wallet.balance
    THEN [L EXCEPT !.wallet.balance = 0]
    ELSE [L EXCEPT !.wallet.balance = @ - amount,
                   !.pendingStake = amount,
                   !.outstanding = @ + amount]

\* stake(amount): the state it leaves
stake(L, amount) ==
    IF amount > L.wallet.balance
    THEN L
    ELSE [L EXCEPT !.wallet.balance = @ - amount,
                   !.pendingStake = amount,
                   !.outstanding = @ + amount]

\* stake(amount): the boolean it returns
StakeOk(L, amount) == ~(amount > L.wallet.balance)

\* Math.floor(p * BURN_RATE)
burnAmount(p) == Floor100(p * BURN_RATE)

completeSimulation_noburn(L, p) ==
    IF p = NO_STAKE
    THEN L
    ELSE [L EXCEPT !.wallet.balance = @ + p,
                   !.wallet.totalStaked = @ + p,
                   !.wallet.totalBurned = @ + burnAmount(p),
                   !.wallet.simulationsRun = @ + 1,
                   !.pendingStake = NO_STAKE,
                   !.outstanding = @ - p]

completeSimulation_keeps_pending(L, p) ==
    IF p = NO_STAKE
    THEN L
    ELSE [L EXCEPT !.wallet.balance = @ + (p - burnAmount(p)),
                   !.wallet.totalStaked = @ + p,
                   !.wallet.totalBurned = @ + burnAmount(p),
                   !.wallet.simulationsRun = @ + 1,
                   !.outstanding = @ - p]

\* completeSimulation(), built by the render in which pendingStake was p
completeSimulation(L, p) ==
    IF p = NO_STAKE
    THEN L
    ELSE LET returnAmount == p - burnAmount(p)
         IN  [L EXCEPT !.wallet.balance = @ + returnAmount,
                       !.wallet.totalStaked = @ + p,
                       !.wallet.totalBurned = @ + burnAmount(p),
                       !.wallet.simulationsRun = @ + 1,
                       !.pendingStake = NO_STAKE,
                       !.outstanding = @ - p]

refundStake_minus_burn(L, p) ==
    IF p = NO_STAKE
    THEN L
    ELSE [L EXCEPT !.wallet.balance = @ + (p - burnAmount(p)),
                   !.pendingStake = NO_STAKE,
                   !.outstanding = @ - p]

\* refundStake(), built by the render in which pendingStake was p
refundStake(L, p) ==
    IF p = NO_STAKE
    THEN L
    ELSE [L EXCEPT !.wallet.balance = @ + p,
                   !.pendingStake = NO_STAKE,
                   !.outstanding = @ - p]

\* claimFaucet()
claimFaucet(L) ==
    IF L.wallet.balance <= 0
    THEN [L EXCEPT !.wallet.balance = INITIAL_BALANCE,
                   !.claims = @ + 1]
    ELSE L

\* resetWallet()
resetWallet(L) ==
    [L EXCEPT !.wallet = DEFAULT_STATE,
              !.pendingStake = NO_STAKE,
              !.outstanding = 0,
              !.claims = 0]

\* JSON.stringify(wallet): the members of the object, in the order of
\* its keys
stringify(w) ==
    <<<<"balance", w.balance>>, <<"totalStaked", w.totalStaked>>,
      <<"totalBurned", w.totalBurned>>,
      <<"simulationsRun", w.simulationsRun>>>>

\* the value of member key of a parsed text
Member(text, key) ==
    LET i == CHOOSE j \in 1..Len(text) : text[j][1] = key
    IN  text[i][2]

\* JSON.parse(saved), read as a WalletState
parseWallet(text) ==
    [balance |-> Member(text, "balance"),
     totalStaked |-> Member(text, "totalStaked"),
     totalBurned |-> Member(text, "totalBurned"),
     simulationsRun |-> Member(text, "simulationsRun")]

\* commit a value of the hook's state; the effect on [wallet] then saves
\* the wallet
SetLedger(L) ==
    /\ wallet' = L.wallet
    /\ pendingStake' = L.pendingStake
    /\ outstanding' = L.outstanding
    /\ claims' = L.claims
    /\ stored' = stringify(L.wallet)
    /\ mounts' = mounts

(***************************************************************************)
(* A component that calls the hook's callbacks of its latest render, and   *)
(* the log of its calls                                                    *)
(***************************************************************************)
Snapshot ==
    [balance |-> wallet.balance, pendingStake |-> pendingStake,
     totalStaked |-> wallet.totalStaked,
     totalBurned |-> wallet.totalBurned,
     simulationsRun |-> wallet.simulationsRun]

\* the log keeps the last two calls, each with the state it found
Log(op, amount, ret) ==
    LET e == [op |-> op, amount |-> amount, ret |-> ret, pre |-> Snapshot]
    IN  hist' = IF hist = <<>> THEN <<e>> ELSE <<hist[Len(hist)], e>>

HookStake(amount) ==
    /\ view = "hook"
    /\ nStakes < MaxStakes
    /\ SetLedger(stake(Ledger, amount))
    /\ Log("stake", amount, StakeOk(Ledger, amount))
    /\ nStakes' = IF StakeOk(Ledger, amount) THEN nStakes + 1 ELSE nStakes
    /\ UNCHANGED <<view, compVars, traffic, runStake, homeVars, runVars, labVars>>

HookCompleteSimulation ==
    /\ view = "hook"
    /\ SetLedger(completeSimulation(Ledger, pendingStake))
    /\ Log("completeSimulation", pendingStake, TRUE)
    /\ UNCHANGED <<view, compVars, nStakes, traffic, runStake, homeVars, runVars,
                   labVars>>

HookRefundStake ==
    /\ view = "hook"
    /\ SetLedger(refundStake(Ledger, pendingStake))
    /\ Log("refundStake", pendingStake, TRUE)
    /\ UNCHANGED <<view, compVars, nStakes, traffic, runStake, homeVars, runVars,
                   labVars>>

HookResetWallet ==
    /\ view = "hook"
    /\ SetLedger(resetWallet(Ledger))
    /\ Log("resetWallet", NO_STAKE, TRUE)
    /\ UNCHANGED <<view, compVars, nStakes, traffic, runStake, homeVars, runVars,
                   labVars>>

HookClaimFaucet ==
    /\ view = "hook"
    /\ SetLedger(claimFaucet(Ledger))
    /\ Log("claimFaucet", NO_STAKE, TRUE)
    /\ UNCHANGED <<view, compVars, nStakes, traffic, runStake, homeVars, runVars,
                   labVars>>

\* The page is loaded again: useState starts from its defaults, the load
\* effect reads the saved text and sets the wallet from it, and the save
\* effect writes the wallet that results.  pendingStake is not saved.
HookRemount ==
    /\ view = "hook"
    /\ mounts < MaxMounts
    /\ mounts' = mounts + 1
    /\ wallet' = parseWallet(stored)
    /\ pendingStake' = NO_STAKE
    /\ stored' = stringify(parseWallet(stored))
    /\ Log("remount", NO_STAKE, TRUE)
    /\ UNCHANGED <<view, compVars, outstanding, claims, nStakes, traffic, runStake,
                   homeVars, runVars, labVars>>

(***************************************************************************)
(* The event stream: text of the response body                             *)
(***************************************************************************)
\* The text is a sequence of pieces; a read may end between any two of
\* them.  The newline is one piece, the prefix 'data: ' is two, so that a
\* read can end inside it.
NL == "\n"
DATA_PREFIX == <<"da", "ta: ">>
\* line.slice(6): the pieces of 'data: '
DATA_PREFIX_LEN == 2

\* The text of a JSON payload in two pieces: the object up to its closing
\* brace, and the brace.  A payload cut before the brace is not JSON.
Payload(kind) ==
    CASE kind = "tweet1"   -> <<"{tweet 1", "}">>
      [] kind = "tweet2"   -> <<"{tweet 2", "}">>
      [] kind = "progress" -> <<"{progress", "}">>
      [] kind = "result"   -> <<"{result", "}">>
      [] kind = "error"    -> <<"{error", "}">>
      [] kind = "broken"   -> <<"{tweet 1">>
      [] kind = "started1"      -> <<"{experiment_started 1", "}">>
      [] kind = "started2"      -> <<"{experiment_started 2", "}">>
      [] kind = "completed1"    -> <<"{experiment_completed 1", "}">>
      [] kind = "run_completed" -> <<"{run_completed", "}">>

\* one line of the body, without its newline; "blank" is the empty line
\* that separates server-sent events
FrameLine(kind) ==
    IF kind = "blank" THEN <<>> ELSE DATA_PREFIX \o Payload(kind)

\* frames of /simulate/stream
FrameKinds ==
    {"tweet1", "tweet2", "progress", "result", "error", "broken", "blank"}

\* frames of /harness/stream
HarnessKinds ==
    {"started1", "started2", "completed1", "run_completed", "error",
     "broken", "blank"}

\* the events of a batch of experiments
BatchKinds == {"started1", "started2", "completed1", "run_completed"}

RECURSIVE BodyOf(_)
BodyOf(kinds) ==
    IF kinds = <<>> THEN <<>>
    ELSE FrameLine(Head(kinds)) \o <<NL>> \o BodyOf(Tail(kinds))

\* the bodies the simulation backend may still send: at most MaxFrames
\* frames in one body, MaxTraffic requests and frames in all
Min(a, b) == IF a <= b THEN a ELSE b
KindSeqs(K, n) == UNION {[1..k -> K] : k \in 0..n}
Bodies == KindSeqs(FrameKinds, Min(MaxFrames, MaxTraffic - traffic))
\* the events of a batch of at most n events: run_completed, if sent, is
\* the last one
BatchBodies(n) ==
    {b \in KindSeqs(BatchKinds, n) :
        \A i \in 1..(Len(b) - 1) : b[i] # "run_completed"}

\* requests and frames the harness backend may answer and send in all
TrafficLimit ==
    IF view = "staked" THEN MaxStakedTraffic ELSE MaxHarnessTraffic

\* the bodies the harness backend may still send: the events of a batch,
\* at most MaxHarnessFrames of them, or at most MaxFrames frames of any
\* kind; to the staked page at most MaxFrames events of a batch
HarnessBodies ==
    IF view = "staked"
    THEN BatchBodies(Min(MaxFrames, TrafficLimit - traffic))
    ELSE BatchBodies(Min(MaxHarnessFrames, TrafficLimit - traffic))
         \cup KindSeqs(HarnessKinds, Min(MaxFrames, TrafficLimit - traffic))

ERROR_MESSAGE == "backend error"
RESULT == "moon"
PROGRESS == "hour 1"

(***************************************************************************)
(* String and JSON primitives                                              *)
(***************************************************************************)
RECURSIVE splitFrom(_, _)
splitFrom(s, cur) ==
    IF s = <<>> THEN <<cur>>
    ELSE IF Head(s) = NL THEN <<cur>> \o splitFrom(Tail(s), <<>>)
    ELSE splitFrom(Tail(s), Append(cur, Head(s)))

\* s.split('\n')
split(s) == splitFrom(s, <<>>)

\* line.startsWith(prefix)
startsWith(line, prefix) ==
    /\ Len(line) >= Len(prefix)
    /\ SubSeq(line, 1, Len(prefix)) = prefix

\* line.slice(n)
slice(line, n) == SubSeq(line, n + 1, Len(line))

\* JSON.parse(text): ok = FALSE stands for the SyntaxError it throws
JSONParse(text) ==
    IF Len(text) = 2 /\ text[2] = "}"
    THEN CASE text[1] = "{tweet 1"  -> [ok |-> TRUE, type |-> "tweet", arg |-> "1"]
           [] text[1] = "{tweet 2"  -> [ok |-> TRUE, type |-> "tweet", arg |-> "2"]
           [] text[1] = "{progress" ->
                [ok |-> TRUE, type |-> "progress", arg |-> PROGRESS]
           [] text[1] = "{result"   ->
                [ok |-> TRUE, type |-> "result", arg |-> RESULT]
           [] text[1] = "{error"    ->
                [ok |-> TRUE, type |-> "error", arg |-> ERROR_MESSAGE]
           [] text[1] = "{experiment_started 1" ->
                [ok |-> TRUE, type |-> "experiment_started", arg |-> "1"]
           [] text[1] = "{experiment_started 2" ->
                [ok |-> TRUE, type |-> "experiment_started", arg |-> "2"]
           [] text[1] = "{experiment_completed 1" ->
                [ok |-> TRUE, type |-> "experiment_completed", arg |-> "1"]
           [] text[1] = "{run_completed" ->
                [ok |-> TRUE, type |-> "run_completed", arg |-> NULL]
           [] OTHER -> [ok |-> TRUE, type |-> "unknown", arg |-> NULL]
    ELSE [ok |-> FALSE, type |-> "SyntaxError", arg |-> NULL]

(***************************************************************************)
(* app/page.tsx: Home                                                      *)
(***************************************************************************)
\* what the decode loop of runSimulation reads and writes
HomeState ==
    [L |-> Ledger, tweets |-> tweets, result |-> result,
     progress |-> progress, thrown |-> NULL]

HomeTry_prepend(S, line) ==
    LET data == JSONParse(slice(line, DATA_PREFIX_LEN))
    IN  IF ~data.ok THEN [S EXCEPT !.thrown = "SyntaxError"]
        ELSE IF data.type = "tweet"
        THEN [S EXCEPT !.tweets = <<data.arg>> \o @]
        ELSE IF data.type = "progress"
        THEN [S EXCEPT !.progress = data.arg]
        ELSE IF data.type = "result"
        THEN [S EXCEPT !.result = data.arg,
                       !.L = completeSimulation(S.L, cap)]
        ELSE IF data.type = "error"
        THEN [S EXCEPT !.thrown = data.arg]
        ELSE S

\* the body of the try block of one 'data: ' line; thrown is the
\* exception that leaves the block
HomeTry(S, line) ==
    LET data == JSONParse(slice(line, DATA_PREFIX_LEN))
    IN  IF ~data.ok THEN [S EXCEPT !.thrown = "SyntaxError"]
        ELSE IF data.type = "tweet"
        THEN [S EXCEPT !.tweets = Append(@, data.arg)]
        ELSE IF data.type = "progress"
        THEN [S EXCEPT !.progress = data.arg]
        ELSE IF data.type = "result"
        THEN [S EXCEPT !.result = data.arg,
                       !.L = completeSimulation(S.L, cap)]
        ELSE IF data.type = "error"
        THEN [S EXCEPT !.thrown = data.arg]
        ELSE S

HomeLine_rethrow(S, line) ==
    IF S.thrown # NULL THEN S
    ELSE IF startsWith(line, DATA_PREFIX) THEN HomeTry(S, line)
    ELSE S

\* one iteration of `for (const line of lines)`: the try block and its
\* empty catch
HomeLine(S, line) ==
    IF S.thrown # NULL THEN S
    ELSE IF startsWith(line, DATA_PREFIX)
    THEN LET T == HomeTry(S, line)
         IN  IF T.thrown # NULL THEN [T EXCEPT !.thrown = NULL] ELSE T
    ELSE S

RECURSIVE HomeLines(_, _)
HomeLines(S, lines) ==
    IF lines = <<>> THEN S
    ELSE HomeLines(HomeLine(S, Head(lines)), Tail(lines))

\* lines.pop() || ''
Front(lines) == SubSeq(lines, 1, Len(lines) - 1)
Last_dropped(lines) == <<>>

Last(lines) == lines[Len(lines)]

\* handleStake(amount, hours), and runSimulation up to its first await.
\* The staking gate that calls it opens from handleRunClick, whose button
\* is disabled while isRunning, and closes here.  The gate disables its
\* confirm button when the tier is not affordable; handleStake repeats
\* that check and its branch is kept.
HandleStake(amount) ==
    /\ view = "home"
    /\ ~isRunning
    /\ nStakes < MaxStakes
    /\ traffic < MaxTraffic
    /\ SetLedger(stake(Ledger, amount))
    /\ Log("stake", amount, StakeOk(Ledger, amount))
    /\ IF ~StakeOk(Ledger, amount)
       THEN /\ error' = "Insufficient balance"
            /\ UNCHANGED <<nStakes, traffic, runStake, tweets, result,
                           progress, isRunning, pc, cap, stream, pos, buffer>>
       ELSE /\ nStakes' = nStakes + 1
            /\ traffic' = traffic + 1
            /\ runStake' = [amount |-> amount, before |-> wallet.balance]
            /\ isRunning' = TRUE
            /\ tweets' = <<>>
            /\ result' = NULL
            /\ error' = NULL
            /\ progress' = NULL
            /\ pc' = "fetching"
            /\ cap' = pendingStake
            /\ stream' = <<>>
            /\ pos' = 0
            /\ buffer' = <<>>
    /\ UNCHANGED <<view, compVars, capExp, labVars>>

\* runSimulation returns: its closure and the response are dropped
RunEnds ==
    /\ pc' = "idle"
    /\ cap' = NO_STAKE
    /\ stream' = <<>>
    /\ pos' = 0
    /\ buffer' = <<>>

\* catch (err) { setError(...); wallet.refundStake() } finally { ... }
HomeCatch(S, message) ==
    /\ SetLedger(refundStake(S.L, cap))
    /\ error' = message
    /\ tweets' = S.tweets
    /\ result' = S.result
    /\ isRunning' = FALSE
    /\ progress' = NULL
    /\ RunEnds


FetchFailures == {"Failed to fetch", "Simulation failed", "No response body"}

\* the request fails, the response is not ok, or it has no body
FetchFails(message) ==
    /\ view = "home"
    /\ pc = "fetching"
    /\ HomeCatch(HomeState, message)
    /\ UNCHANGED <<view, compVars, hist, nStakes, traffic, runStake, capExp, labVars>>

\* the response is ok and has a body
FetchOk(kinds) ==
    /\ view = "home"
    /\ pc = "fetching"
    /\ pc' = "reading"
    /\ stream' = BodyOf(kinds)
    /\ traffic' = traffic + Len(kinds)
    /\ pos' = 0
    /\ buffer' = <<>>
    /\ UNCHANGED <<view, compVars, walletVars, runStake, homeVars, isRunning, error,
                   cap, capExp, labVars>>

\* Sidebar: {balance <= 0 && <button onClick={onClaimFaucet}>}
SidebarClaimFaucet ==
    /\ view = "home"
    /\ wallet.balance <= 0
    /\ SetLedger(claimFaucet(Ledger))
    /\ Log("claimFaucet", NO_STAKE, TRUE)
    /\ UNCHANGED <<view, compVars, nStakes, traffic, runStake, homeVars, runVars,
                   labVars>>

\* reader.read() yields the next n characters; the lines they complete
\* are decoded
ReadChunk(n) ==
    /\ view = "home"
    /\ pc = "reading"
    /\ n \in 1..(Len(stream) - pos)
    /\ LET text == buffer \o SubSeq(stream, pos + 1, pos + n)
           lines == split(text)
           S == HomeLines(HomeState, Front(lines))
       IN  IF S.thrown # NULL
           THEN HomeCatch(S, S.thrown)
           ELSE /\ SetLedger(S.L)
                /\ tweets' = S.tweets
                /\ result' = S.result
                /\ progress' = S.progress
                /\ pos' = pos + n
                /\ buffer' = Last(lines)
                /\ UNCHANGED <<isRunning, error, pc, cap, stream>>
    /\ UNCHANGED <<view, compVars, hist, nStakes, traffic, runStake, capExp, labVars>>

\* reader.read() yields done
ReadDone ==
    /\ view = "home"
    /\ pc = "reading"
    /\ pos = Len(stream)
    /\ isRunning' = FALSE
    /\ progress' = NULL
    /\ RunEnds
    /\ UNCHANGED <<view, compVars, walletVars, traffic, runStake, tweets, result, error,
                   capExp, labVars>>

\* reader.read() rejects: the connection is lost
ReadFails ==
    /\ view = "home"
    /\ pc = "reading"
    /\ HomeCatch(HomeState, "network error")
    /\ UNCHANGED <<view, compVars, hist, nStakes, traffic, runStake, capExp, labVars>>

(***************************************************************************)
(* app/lab/page.tsx: Lab                                                   *)
(***************************************************************************)
NO_SCORE == -1
NO_EXPERIMENT ==
    [id |-> NULL, ticker |-> NULL, score |-> NO_SCORE, status |-> NULL,
     outcome |-> NULL]
NO_PROGRESS == [completed |-> -1, total |-> -1]
TOTAL_EXPERIMENTS == 2

\* the fields of the harness events: experiment n of TOTAL_EXPERIMENTS
EventId(n) == IF n = "1" THEN "exp-1" ELSE "exp-2"
EventTicker(n) == IF n = "1" THEN "TICK1" ELSE "TICK2"
EventIndex(n) == IF n = "1" THEN 1 ELSE 2
\* score 0.8, in tenths
EVENT_SCORE == 8
EVENT_OUTCOME == "moon"

\* The harness page exists twice: app/lab/page.tsx ("lab"), and the page
\* of part_006 ("staked"), which is the same controller with a stake taken
\* at launch and settled by the run.
LabViews == {"lab", "staked"}

\* harnessConfig.max_experiments, and the stake of a run
MAX_EXPERIMENTS == 5
requiredStake == MAX_EXPERIMENTS * HARNESS_STAKE_PER_EXPERIMENT

\* One invocation of startHarness: its position, what its closure sees
\* (cap, capExp), its response and buffer, and its AbortController:
\* "none" before `new AbortController()`, "current" while
\* eventSourceRef.current is that controller, "replaced" once a later
\* invocation has stored its own.  cancelled: stopHarness has been called
\* during the invocation; alone: no other invocation was executing when
\* it began.
IDLE_RUN ==
    [pc |-> "idle", cap |-> NO_STAKE, capExp |-> NO_EXPERIMENT,
     stream |-> <<>>, pos |-> 0, buffer |-> <<>>, controller |-> "none",
     cancelled |-> FALSE, alone |-> TRUE]

\* the latest invocation
Latest ==
    [pc |-> pc, cap |-> cap, capExp |-> capExp, stream |-> stream,
     pos |-> pos, buffer |-> buffer, controller |-> controller,
     cancelled |-> cancelled, alone |-> alone]

\* every invocation that may still be executing, the latest first
Runs == <<Latest>> \o earlier

IsLive(R) == R.pc # "idle"
LiveRuns == Len(SelectSeq(Runs, IsLive))

SetRuns(all) ==
    /\ pc' = all[1].pc
    /\ cap' = all[1].cap
    /\ capExp' = all[1].capExp
    /\ stream' = all[1].stream
    /\ pos' = all[1].pos
    /\ buffer' = all[1].buffer
    /\ controller' = all[1].controller
    /\ cancelled' = all[1].cancelled
    /\ alone' = all[1].alone
    /\ earlier' = SelectSeq(Tail(all), IsLive)

\* what the decode loop of invocation R reads and writes
LabState(R) ==
    [L |-> Ledger, page |-> view, cap |-> R.cap, capExp |-> R.capExp,
     experiments |-> experiments, currentExperiment |-> currentExperiment,
     runProgress |-> runProgress, error |-> error, isRunning |-> isRunning,
     refreshes |-> refreshes, thrown |-> NULL, returned |-> FALSE]

\* handleHarnessEvent(event), of the render that started the run: its
\* currentExperiment is capExp.  name, strategy, meme_style and hook are
\* filled exactly as ticker is.  (The events modelled carry an idea only
\* in experiment_started.)
handleHarnessEvent(S, event) ==
    CASE event.type = "experiment_started" ->
            [S EXCEPT !.currentExperiment =
                        [id |-> EventId(event.arg),
                         ticker |-> EventTicker(event.arg),
                         score |-> NO_SCORE, status |-> "running",
                         outcome |-> NULL],
                      !.runProgress =
                        [completed |-> EventIndex(event.arg) - 1,
                         total |-> TOTAL_EXPERIMENTS]]
      [] event.type = "experiment_completed" ->
            [S EXCEPT !.experiments = Append(@,
                        [id |-> EventId(event.arg),
                         ticker |-> IF S.capExp = NO_EXPERIMENT THEN "UNK"
                                    ELSE S.capExp.ticker,
                         score |-> EVENT_SCORE, status |-> "completed",
                         outcome |-> EVENT_OUTCOME]),
                      !.currentExperiment = NO_EXPERIMENT,
                      !.runProgress =
                        [completed |-> EventIndex(event.arg),
                         total |-> TOTAL_EXPERIMENTS]]
      [] event.type = "run_completed" -> [S EXCEPT !.isRunning = FALSE]
      [] event.type = "error" -> [S EXCEPT !.error = event.arg]
      [] OTHER -> S

\* wallet.completeSimulation() of the staked page, built by the render
\* that started the run
Completed(S) ==
    IF S.page = "staked" THEN completeSimulation(S.L, S.cap) ELSE S.L

\* wallet.refundStake() of the staked page, built by the render that
\* started the run
Refunded(S) ==
    IF S.page = "staked" THEN refundStake(S.L, S.cap) ELSE S.L

LabTry_no_return(S, line) ==
    LET event == JSONParse(slice(line, DATA_PREFIX_LEN))
    IN  IF ~event.ok THEN [S EXCEPT !.thrown = "SyntaxError"]
        ELSE handleHarnessEvent(S, event)

\* the body of the try block of one 'data: ' line
LabTry(S, line) ==
    LET event == JSONParse(slice(line, DATA_PREFIX_LEN))
    IN  IF ~event.ok THEN [S EXCEPT !.thrown = "SyntaxError"]
        ELSE LET T == handleHarnessEvent(S, event)
             IN  IF event.type \in {"done", "run_completed"}
                 THEN [T EXCEPT !.isRunning = FALSE,
                                !.L = Completed(T),
                                !.refreshes = @ + 1,
                                !.returned = TRUE]
                 ELSE T

LabLine_rethrow(S, line) ==
    IF S.thrown # NULL \/ S.returned THEN S
    ELSE IF startsWith(line, DATA_PREFIX) THEN LabTry(S, line)
    ELSE S

\* one iteration of `for (const line of lines)`: the try block and its
\* empty catch
LabLine(S, line) ==
    IF S.thrown # NULL \/ S.returned THEN S
    ELSE IF startsWith(line, DATA_PREFIX)
    THEN LET T == LabTry(S, line)
         IN  IF T.thrown # NULL THEN [T EXCEPT !.thrown = NULL] ELSE T
    ELSE S

RECURSIVE LabLines(_, _)
LabLines(S, lines) ==
    IF lines = <<>> THEN S
    ELSE LabLines(LabLine(S, Head(lines)), Tail(lines))

\* commit what a turn of an invocation leaves
SetLab(S) ==
    /\ experiments' = S.experiments
    /\ currentExperiment' = S.currentExperiment
    /\ runProgress' = S.runProgress
    /\ refreshes' = S.refreshes
    /\ error' = S.error
    /\ isRunning' = S.isRunning
    /\ SetLedger(S.L)

\* invocation r returns: its closure and the response are dropped
HarnessEnds(r) == SetRuns([Runs EXCEPT ![r] = IDLE_RUN])

\* catch (err) { if not AbortError: setError(...) [refundStake()] }
\* finally { setIsRunning(false) }
LabCatch_no_error(r, S, message) ==
    /\ SetLab([S EXCEPT !.isRunning = FALSE,
                        !.L = Refunded(S)])
    /\ HarnessEnds(r)

LabCatch(r, S, message) ==
    /\ SetLab([S EXCEPT !.error = message,
                        !.isRunning = FALSE,
                        !.L = Refunded(S)])
    /\ HarnessEnds(r)

\* startHarness up to its first await, with the wallet callbacks the page
\* has at that moment; the run request and the stream request are counted
BeginHarness(L, seen) ==
    /\ traffic' = traffic + 2
    /\ SetLab([LabState(IDLE_RUN) EXCEPT
                 !.L = L, !.isRunning = TRUE, !.experiments = <<>>,
                 !.currentExperiment = NO_EXPERIMENT, !.error = NULL,
                 !.runProgress = NO_PROGRESS])
    /\ SetRuns(<<[IDLE_RUN EXCEPT !.pc = "starting", !.cap = seen,
                                   !.capExp = currentExperiment,
                                   !.alone = (LiveRuns = 0)]>>
               \o SelectSeq(Runs, IsLive))

\* the Launch button is rendered when !isRunning
CanLaunch ==
    /\ ~isRunning
    /\ LiveRuns < MaxLiveRuns
    /\ traffic + 2 <= TrafficLimit

\* lab/page.tsx: onClick={startHarness}
StartHarness ==
    /\ view = "lab"
    /\ CanLaunch
    /\ BeginHarness(Ledger, NO_STAKE)
    /\ UNCHANGED <<view, compVars, hist, nStakes, runStake, homeVars, stops>>

\* part_006: handleLaunchClick (the button is disabled when the stake is
\* not affordable; the handler repeats the check), then
\* confirmAndStartHarness from the staking dialog it opens
ConfirmAndStartHarness ==
    /\ view = "staked"
    /\ CanLaunch
    /\ nStakes < MaxStakes
    /\ Log("stake", requiredStake, StakeOk(Ledger, requiredStake))
    /\ IF ~StakeOk(Ledger, requiredStake)
       THEN /\ SetLab([LabState(Latest) EXCEPT
                         !.error = "Insufficient balance"])
            /\ SetRuns(Runs)
            /\ UNCHANGED <<nStakes, traffic>>
       ELSE /\ nStakes' = nStakes + 1
            /\ BeginHarness(stake(Ledger, requiredStake), pendingStake)
    /\ UNCHANGED <<view, compVars, runStake, homeVars, stops>>

\* what every turn of a running invocation leaves alone
LabFrame == UNCHANGED <<view, compVars, hist, nStakes, runStake, homeVars, stops>>

RunFailures == {"Failed to fetch", "Failed to start harness"}

\* POST /harness/run fails or is not ok
RunRejected(r, message) ==
    /\ view \in LabViews
    /\ Runs[r].pc = "starting"
    /\ LabCatch(r, LabState(Runs[r]), message)
    /\ UNCHANGED traffic
    /\ LabFrame

\* eventSourceRef.current = controller: the controller stored before is
\* no longer the current one
Store(r) ==
    [i \in DOMAIN Runs |->
        IF i = r THEN [Runs[i] EXCEPT !.pc = "connecting",
                                      !.controller = "current"]
        ELSE IF Runs[i].controller = "current"
        THEN [Runs[i] EXCEPT !.controller = "replaced"]
        ELSE Runs[i]]

\* POST /harness/run is ok: the controller is made and stored, the stream
\* is requested
RunAccepted(r) ==
    /\ view \in LabViews
    /\ Runs[r].pc = "starting"
    /\ SetRuns(Store(r))
    /\ SetLab(LabState(Runs[r]))
    /\ UNCHANGED traffic
    /\ LabFrame

StreamFailures ==
    {"Failed to fetch", "Failed to connect to stream", "No response body"}

\* GET /harness/stream fails, is not ok, or has no body
StreamRejected(r, message) ==
    /\ view \in LabViews
    /\ Runs[r].pc = "connecting"
    /\ LabCatch(r, LabState(Runs[r]), message)
    /\ UNCHANGED traffic
    /\ LabFrame

\* GET /harness/stream is ok and has a body
StreamOk(r, kinds) ==
    /\ view \in LabViews
    /\ Runs[r].pc = "connecting"
    /\ SetRuns([Runs EXCEPT ![r] = [@ EXCEPT !.pc = "reading",
                                             !.stream = BodyOf(kinds),
                                             !.pos = 0,
                                             !.buffer = <<>>]])
    /\ SetLab(LabState(Runs[r]))
    /\ traffic' = traffic + Len(kinds)
    /\ LabFrame

\* reader.read() yields the next n pieces; the lines they complete are
\* decoded
LabReadChunk(r, n) ==
    /\ view \in LabViews
    /\ Runs[r].pc = "reading"
    /\ n \in 1..(Len(Runs[r].stream) - Runs[r].pos)
    /\ LET R == Runs[r]
           text == R.buffer \o SubSeq(R.stream, R.pos + 1, R.pos + n)
           lines == split(text)
           S == LabLines(LabState(R), Front(lines))
       IN  IF S.thrown # NULL
           THEN LabCatch(r, S, S.thrown)
           ELSE IF S.returned
           THEN /\ SetLab([S EXCEPT !.isRunning = FALSE])
                /\ HarnessEnds(r)
           ELSE /\ SetLab(S)
                /\ SetRuns([Runs EXCEPT ![r] = [@ EXCEPT !.pos = R.pos + n,
                                                         !.buffer = Last(lines)]])
    /\ UNCHANGED traffic
    /\ LabFrame

\* reader.read() yields done
LabReadDone(r) ==
    /\ view \in LabViews
    /\ Runs[r].pc = "reading"
    /\ Runs[r].pos = Len(Runs[r].stream)
    /\ SetLab([LabState(Runs[r]) EXCEPT !.isRunning = FALSE])
    /\ HarnessEnds(r)
    /\ UNCHANGED traffic
    /\ LabFrame

\* reader.read() rejects: the connection is lost
LabReadFails(r) ==
    /\ view \in LabViews
    /\ Runs[r].pc = "reading"
    /\ LabCatch(r, LabState(Runs[r]), "network error")
    /\ UNCHANGED traffic
    /\ LabFrame

\* controller.abort() reaches an invocation whose controller is the
\* stored one and whose stream request or read is pending
IsAborted(R) ==
    R.controller = "current" /\ R.pc \in {"connecting", "reading"}

abort_nothing(all) ==
    [i \in DOMAIN all |->
        IF IsLive(all[i]) THEN [all[i] EXCEPT !.cancelled = TRUE]
        ELSE all[i]]

\* eventSourceRef.current.abort(): the pending fetch or read of the
\* invocation that owns the controller rejects with an AbortError, which
\* its catch ignores: the invocation is over.  The other invocations go on.
abort(all) ==
    [i \in DOMAIN all |->
        IF IsAborted(all[i]) THEN IDLE_RUN
        ELSE IF IsLive(all[i]) THEN [all[i] EXCEPT !.cancelled = TRUE]
        ELSE all[i]]

\* stopHarness up to its await (the Stop button is rendered when
\* isRunning), and the finally block of the aborted invocation; the stop
\* request is counted
StopHarness ==
    /\ view \in LabViews
    /\ isRunning
    /\ stops < MaxStops
    /\ traffic < TrafficLimit
    /\ traffic' = traffic + 1
    /\ stops' = stops + 1
    /\ SetRuns(abort(Runs))
    /\ SetLab([LabState(Latest) EXCEPT
                 !.isRunning = IF \E i \in DOMAIN Runs : IsAborted(Runs[i])
                               THEN FALSE ELSE @])
    /\ UNCHANGED <<view, compVars, hist, nStakes, runStake, homeVars>>

\* POST /harness/stop has been answered, or has failed:
\* setIsRunning(false)
StopReturns ==
    /\ view \in LabViews
    /\ stops > 0
    /\ stops' = stops - 1
    /\ SetRuns(Runs)
    /\ SetLab([LabState(Latest) EXCEPT !.isRunning = FALSE])
    /\ UNCHANGED <<view, compVars, hist, nStakes, traffic, runStake, homeVars>>

(***************************************************************************)
(* components/TweetThread.tsx: groupTweetsIntoThreads                      *)
(***************************************************************************)
\* the ids a reply or a quote may name: a post of the collection, or none
\* of them
ABSENT_ID == "999"
TargetIds == {"1", "2", ABSENT_ID}

\* tweet_type, is_reply_to and quotes_tweet of a post; NULL is an unset
\* or null field
PostKinds ==
    [tweet_type : {"original", NULL}, is_reply_to : {NULL},
     quotes_tweet : {NULL}]
    \cup [tweet_type : {"reply"}, is_reply_to : TargetIds \cup {NULL},
          quotes_tweet : {NULL}]
    \cup [tweet_type : {"quote"}, is_reply_to : {NULL},
          quotes_tweet : TargetIds]

\* the post at place i of a collection has id i: ids are unique
ThreadPost(i, k) ==
    [id |-> ToString(i), tweet_type |-> k.tweet_type,
     is_reply_to |-> k.is_reply_to, quotes_tweet |-> k.quotes_tweet]

\* no post answers or quotes itself
NamesItself(p) == p.id \in {p.is_reply_to, p.quotes_tweet}

\* the posts 1 original, 2 reply to 1, 3 quote of 1, 4 reply to 999
SCENARIO_POSTS ==
    << [id |-> "1", tweet_type |-> "original", is_reply_to |-> NULL,
        quotes_tweet |-> NULL],
       [id |-> "2", tweet_type |-> "reply", is_reply_to |-> "1",
        quotes_tweet |-> NULL],
       [id |-> "3", tweet_type |-> "quote", is_reply_to |-> NULL,
        quotes_tweet |-> "1"],
       [id |-> "4", tweet_type |-> "reply", is_reply_to |-> ABSENT_ID,
        quotes_tweet |-> NULL] >>

\* the collections of at most MaxPosts posts, and the four posts above
ThreadInputs ==
    UNION {{tw \in {[i \in 1..n |-> ThreadPost(i, ks[i])] :
                      ks \in [1..n -> PostKinds]} :
                \A i \in 1..n : ~NamesItself(tw[i])}
           : n \in 0..MaxPosts}
    \cup {SCENARIO_POSTS}

\* threads.find(t => t.parent.id === id): its place, 0 for undefined
find(threads, id) ==
    LET I == {i \in 1..Len(threads) : threads[i].parent.id = id}
    IN  IF I = {} THEN 0 ELSE CHOOSE i \in I : \A j \in I : i <= j

\* threads.push({ parent: tweet, replies: [], quotes: [] })
pushThread(G, tweet) ==
    [G EXCEPT !.threads =
        Append(@, [parent |-> tweet, replies |-> <<>>, quotes |-> <<>>])]

markUsed(G, tweet) == [G EXCEPT !.usedIds = @ \cup {tweet.id}]

pushReply_front(G, i, tweet) ==
    [G EXCEPT !.threads[i].replies = <<tweet>> \o @]

\* thread.replies.push(tweet)
pushReply(G, i, tweet) ==
    [G EXCEPT !.threads[i].replies = Append(@, tweet)]

\* thread.quotes.push(tweet)
pushQuote(G, i, tweet) ==
    [G EXCEPT !.threads[i].quotes = Append(@, tweet)]

\* first pass: original posts, and posts of no kind, are parents
RECURSIVE firstPass(_, _)
firstPass(tw, G) ==
    IF tw = <<>> THEN G
    ELSE LET tweet == Head(tw)
         IN  firstPass(Tail(tw),
                IF tweet.tweet_type = "original" \/ tweet.tweet_type = NULL
                THEN markUsed(pushThread(G, tweet), tweet)
                ELSE G)

secondStep_unmarked(G, tweet) ==
    IF tweet.id \in G.usedIds THEN G
    ELSE IF tweet.tweet_type = "reply" /\ tweet.is_reply_to # NULL
    THEN LET i == find(G.threads, tweet.is_reply_to)
         IN  IF i # 0 THEN pushReply(G, i, tweet) ELSE G
    ELSE IF tweet.tweet_type = "quote" /\ tweet.quotes_tweet # NULL
    THEN LET i == find(G.threads, tweet.quotes_tweet)
         IN  IF i # 0 THEN pushQuote(G, i, tweet) ELSE G
    ELSE G

\* second pass, one post: a reply or a quote goes under the parent it
\* names
secondStep(G, tweet) ==
    IF tweet.id \in G.usedIds THEN G
    ELSE IF tweet.tweet_type = "reply" /\ tweet.is_reply_to # NULL
    THEN LET i == find(G.threads, tweet.is_reply_to)
         IN  IF i # 0 THEN markUsed(pushReply(G, i, tweet), tweet) ELSE G
    ELSE IF tweet.tweet_type = "quote" /\ tweet.quotes_tweet # NULL
    THEN LET i == find(G.threads, tweet.quotes_tweet)
         IN  IF i # 0 THEN markUsed(pushQuote(G, i, tweet), tweet) ELSE G
    ELSE G

RECURSIVE secondPass(_, _)
secondPass(tw, G) ==
    IF tw = <<>> THEN G
    ELSE secondPass(Tail(tw), secondStep(G, Head(tw)))

\* third pass: what is left stands alone
RECURSIVE thirdPass(_, _)
thirdPass(tw, G) ==
    IF tw = <<>> THEN G
    ELSE LET tweet == Head(tw)
         IN  thirdPass(Tail(tw),
                IF tweet.id \notin G.usedIds THEN pushThread(G, tweet)
                ELSE G)

groupTweetsIntoThreads_attached_only(tw) ==
    secondPass(tw, firstPass(tw, [threads |-> <<>>, usedIds |-> {}])).threads

groupTweetsIntoThreads(tw) ==
    LET G1 == firstPass(tw, [threads |-> <<>>, usedIds |-> {}])
        G2 == secondPass(tw, G1)
        G3 == thirdPass(tw, G2)
    IN  G3.threads

\* a component is given its tweets and computes what it shows
NOT_RENDERED == [done |-> FALSE, value |-> <<>>]
Rendered(value) == [done |-> TRUE, value |-> value]

\* Home renders its posts: groupTweetsIntoThreads(tweets)
RenderThreads ==
    /\ view = "threads"
    /\ ~rendered.done
    /\ rendered' = Rendered(groupTweetsIntoThreads(props))
    /\ UNCHANGED <<view, props, walletVars, traffic, runStake, homeVars,
                   runVars, labVars>>

(***************************************************************************)
(* components/Tweet.tsx: SentimentChart                                    *)
(***************************************************************************)
\* sentiment is a number of [-1, 1]; it is counted here in tenths
Sentiments == {-10, 5}

ChartPost(h, s) == [hour |-> h, sentiment |-> s]

ChartInputs ==
    UNION {[1..n -> {ChartPost(h, s) : h \in 0..MaxHour, s \in Sentiments}]
           : n \in 0..MaxChartPosts}

\* a / b, kept exact; two quotients are the same number when they cross-
\* multiply to the same products
Quotient(a, b) == [num |-> a, den |-> b]
ZERO == Quotient(0, 1)
SameNumber(x, y) == x.num * y.den = y.num * x.den

\* tweets.forEach(tweet => { byHour[tweet.hour] ... })
RECURSIVE groupByHour(_, _)
groupByHour(tw, byHour) ==
    IF tw = <<>> THEN byHour
    ELSE LET tweet == Head(tw)
             entry == IF tweet.hour \in DOMAIN byHour THEN byHour[tweet.hour]
                      ELSE [total |-> 0, count |-> 0]
         IN  groupByHour(Tail(tw),
                [h \in DOMAIN byHour \cup {tweet.hour} |->
                    IF h = tweet.hour
                    THEN [total |-> entry.total + tweet.sentiment,
                          count |-> entry.count + 1]
                    ELSE byHour[h]])

\* Math.max(...Object.keys(byHour).map(Number))
maxHourOf(byHour) == CHOOSE h \in DOMAIN byHour : \A g \in DOMAIN byHour : g <= h

average_of_total(entry) == Quotient(entry.total, 1)

\* entry.total / entry.count
average(entry) == Quotient(entry.total, entry.count)

\* the chartData of SentimentChart
chartData(tw) ==
    IF Len(tw) = 0 THEN <<>>
    ELSE LET byHour == groupByHour(tw, <<>>)
         IN  [i \in 1..(maxHourOf(byHour) + 1) |->
                [hour |-> i - 1,
                 sentiment |-> IF (i - 1) \in DOMAIN byHour
                               THEN average(byHour[i - 1])
                               ELSE ZERO]]

\* SentimentChart renders its tweets
RenderChart ==
    /\ view = "chart"
    /\ ~rendered.done
    /\ rendered' = Rendered(chartData(props))
    /\ UNCHANGED <<view, props, walletVars, traffic, runStake, homeVars,
                   runVars, labVars>>

(***************************************************************************)
(* components/TweetThread.tsx: PersonaImpact                               *)
(***************************************************************************)
AuthorTypes == {"kol", "degen", "skeptic"}

\* likes, retweets, replies and sentiment (in tenths) of a post
Reactions ==
    {[likes |-> 0, retweets |-> 0, replies |-> 0, sentiment |-> -10],
     [likes |-> 1, retweets |-> 0, replies |-> 0, sentiment |-> 3],
     [likes |-> 0, retweets |-> 1, replies |-> 1, sentiment |-> 10]}

PersonaPost(type, r) ==
    [author_type |-> type, likes |-> r.likes, retweets |-> r.retweets,
     replies |-> r.replies, sentiment |-> r.sentiment]

PersonaInputs ==
    UNION {[1..n -> {PersonaPost(type, r) : type \in AuthorTypes,
                                            r \in Reactions}]
           : n \in 0..MaxPersonaPosts}

\* x + y and x * n on quotients
Plus(x, y) == Quotient(x.num * y.den + y.num * x.den, x.den * y.den)
Times(x, n) == Quotient(x.num * n, x.den)
GreaterThan(x, y) == x.num * y.den > y.num * x.den

\* tweets.forEach(...): byType with its keys in insertion order, and
\* totalEngagement
RECURSIVE groupByType(_, _)
groupByType(tw, acc) ==
    IF tw = <<>> THEN acc
    ELSE LET tweet == Head(tw)
             type == tweet.author_type
             known == type \in DOMAIN acc.byType
             entry == IF known THEN acc.byType[type]
                      ELSE [tweets |-> <<>>, engagement |-> 0]
             engagement == tweet.likes + tweet.retweets + tweet.replies
         IN  groupByType(Tail(tw),
                [byType |->
                    [t \in DOMAIN acc.byType \cup {type} |->
                        IF t = type
                        THEN [tweets |-> Append(entry.tweets, tweet),
                              engagement |-> entry.engagement + engagement]
                        ELSE acc.byType[t]],
                 keys |-> IF known THEN acc.keys ELSE Append(acc.keys, type),
                 totalEngagement |-> acc.totalEngagement + engagement])

engagementPct_ratio(engagement, totalEngagement) ==
    IF totalEngagement > 0 THEN Quotient(engagement, totalEngagement)
    ELSE ZERO

\* totalEngagement > 0 ? (data.engagement / totalEngagement) * 100 : 0
engagementPct(engagement, totalEngagement) ==
    IF totalEngagement > 0
    THEN Times(Quotient(engagement, totalEngagement), 100)
    ELSE ZERO

RECURSIVE sumOfSentiment(_)
sumOfSentiment(tw) ==
    IF tw = <<>> THEN 0 ELSE Head(tw).sentiment + sumOfSentiment(Tail(tw))

\* one element of the .map over Object.entries(byType)
personaStats(type, data, totalEngagement) ==
    [type |-> type,
     tweetCount |-> Len(data.tweets),
     avgSentiment |-> Quotient(sumOfSentiment(data.tweets), Len(data.tweets)),
     totalEngagement |-> data.engagement,
     engagementPct |-> engagementPct(data.engagement, totalEngagement)]

\* .sort((a, b) => b.engagementPct - a.engagementPct): stable, the
\* larger share first
RECURSIVE insertSorted(_, _)
insertSorted(sorted, s) ==
    IF sorted = <<>> THEN <<s>>
    ELSE IF GreaterThan(s.engagementPct, Head(sorted).engagementPct)
    THEN <<s>> \o sorted
    ELSE <<Head(sorted)>> \o insertSorted(Tail(sorted), s)

RECURSIVE sortStats(_, _)
sortStats(list, sorted) ==
    IF list = <<>> THEN sorted
    ELSE sortStats(Tail(list), insertSorted(sorted, Head(list)))

\* the stats of PersonaImpact
personaImpactStats(tw) ==
    IF Len(tw) = 0 THEN <<>>
    ELSE LET acc == groupByType(tw, [byType |-> <<>>, keys |-> <<>>,
                                      totalEngagement |-> 0])
             stats == [i \in 1..Len(acc.keys) |->
                          personaStats(acc.keys[i], acc.byType[acc.keys[i]],
                                       acc.totalEngagement)]
         IN  sortStats(stats, <<>>)

\* PersonaImpact renders its tweets
RenderPersonaImpact ==
    /\ view = "persona"
    /\ ~rendered.done
    /\ rendered' = Rendered(personaImpactStats(props))
    /\ UNCHANGED <<view, props, walletVars, traffic, runStake, homeVars,
                   runVars, labVars>>

Init ==
    /\ view \in {"hook", "home", "lab", "staked", "threads", "chart", "persona"}
    /\ props \in CASE view = "threads" -> ThreadInputs
                  [] view = "chart" -> ChartInputs
                  [] view = "persona" -> PersonaInputs
                  [] OTHER -> {<<>>}
    /\ rendered = NOT_RENDERED
    /\ wallet = DEFAULT_STATE
    /\ pendingStake = NO_STAKE
    /\ outstanding = 0
    /\ claims = 0
    /\ stored = stringify(DEFAULT_STATE)
    /\ mounts = 1
    /\ hist = <<>>
    /\ nStakes = 0
    /\ traffic = 0
    /\ runStake = NO_RUN
    /\ isRunning = FALSE
    /\ tweets = <<>>
    /\ result = NULL
    /\ error = NULL
    /\ progress = NULL
    /\ pc = "idle"
    /\ cap = NO_STAKE
    /\ capExp = NO_EXPERIMENT
    /\ stream = <<>>
    /\ pos = 0
    /\ buffer = <<>>
    /\ experiments = <<>>
    /\ currentExperiment = NO_EXPERIMENT
    /\ runProgress = NO_PROGRESS
    /\ refreshes = 0
    /\ controller = "none"
    /\ cancelled = FALSE
    /\ alone = TRUE
    /\ earlier = <<>>
    /\ stops = 0

Next ==
    \/ \E amount \in StakeAmounts : HookStake(amount)
    \/ HookCompleteSimulation
    \/ HookRefundStake
    \/ HookResetWallet
    \/ HookClaimFaucet
    \/ HookRemount
    \/ SidebarClaimFaucet
    \/ \E amount \in STAKE_TIERS : HandleStake(amount)
    \/ \E message \in FetchFailures : FetchFails(message)
    \/ \E kinds \in Bodies : FetchOk(kinds)
    \/ \E n \in 1..(Len(stream) - pos) : ReadChunk(n)
    \/ ReadDone
    \/ ReadFails
    \/ StartHarness
    \/ ConfirmAndStartHarness
    \/ \E r \in DOMAIN Runs, message \in RunFailures : RunRejected(r, message)
    \/ \E r \in DOMAIN Runs : RunAccepted(r)
    \/ \E r \in DOMAIN Runs, message \in StreamFailures :
          StreamRejected(r, message)
    \/ \E r \in DOMAIN Runs, kinds \in HarnessBodies : StreamOk(r, kinds)
    \/ \E r \in DOMAIN Runs :
          \E n \in 1..(Len(Runs[r].stream) - Runs[r].pos) : LabReadChunk(r, n)
    \/ \E r \in DOMAIN Runs : LabReadDone(r)
    \/ \E r \in DOMAIN Runs : LabReadFails(r)
    \/ StopHarness
    \/ StopReturns
    \/ RenderThreads
    \/ RenderChart
    \/ RenderPersonaImpact

Spec == Init /\ [][Next]_vars

(***************************************************************************)
(* Properties                                                              *)
(***************************************************************************)
LastCall == hist[Len(hist)]
PrevCall == hist[Len(hist) - 1]

\* the latest two logged calls are an accepted stake and then op
StakeThen(op) ==
    /\ Len(hist) >= 2
    /\ PrevCall.op = "stake"
    /\ PrevCall.ret
    /\ PrevCall.amount > 0
    /\ LastCall.op = op

\* C1: in every state reachable from the initial demo wallet by stake,
\* completeSimulation, refundStake, claimFaucet and resetWallet calls, the
\* balance is >= 0.
C1_BalanceNonNegative == wallet.balance >= 0

\* a stake has taken the whole balance
C1_Witness ==
    /\ view = "hook"
    /\ wallet.balance = 0
    /\ pendingStake = INITIAL_BALANCE

\* C2: no two stakes are outstanding at once: every amount debited from
\* the balance by a stake that is not yet completed or refunded is recorded
\* in pendingStake.
C2_OutstandingIsPending ==
    outstanding = IF pendingStake = NO_STAKE THEN 0 ELSE pendingStake

\* C3: stake(amount) with amount > balance returns false and leaves
\* balance, pendingStake and the totals unchanged; handleStake then shows
\* 'Insufficient balance' and starts no simulation request.
C3_InsufficientBalanceRejected ==
    (/\ hist # <<>>
     /\ LastCall.op = "stake"
     /\ LastCall.amount > LastCall.pre.balance)
    => /\ ~LastCall.ret
       /\ Snapshot = LastCall.pre
       /\ view = "home" =>
            /\ error = "Insufficient balance"
            /\ pc = "idle"
            /\ ~isRunning

C3_Witness ==
    /\ view = "home"
    /\ hist # <<>>
    /\ LastCall.op = "stake"
    /\ LastCall.amount > LastCall.pre.balance
    /\ LastCall.pre.balance > 0

\* C4 as stated: stake(amount) and then completeSimulation() leave
\* balance = original - amount + floor(amount * 0.95).
C4_ReturnsFloorOf95Percent ==
    StakeThen("completeSimulation")
    => wallet.balance =
         PrevCall.pre.balance - PrevCall.amount
           + ((PrevCall.amount * 95) \div 100)

\* C4 as amended: stake(amount) and then completeSimulation() leave
\* balance = original - amount + (amount - floor(amount * 0.05)).
C4_ReturnsStakeMinusFlooredBurn ==
    StakeThen("completeSimulation")
    => wallet.balance =
         PrevCall.pre.balance - PrevCall.amount
           + (PrevCall.amount - ((PrevCall.amount * 5) \div 100))

\* an amount whose 5% is not whole
C4_Witness ==
    /\ StakeThen("completeSimulation")
    /\ PrevCall.amount = HARNESS_STAKE_PER_EXPERIMENT
    /\ wallet.balance = PrevCall.pre.balance - 2

\* C5: stake(amount) and then refundStake() restore the ledger: balance
\* as before the stake, pendingStake null, the totals unchanged.
C5_RefundRestoresLedger ==
    StakeThen("refundStake")
    => /\ wallet.balance = PrevCall.pre.balance
       /\ pendingStake = NO_STAKE
       /\ wallet.totalStaked = PrevCall.pre.totalStaked
       /\ wallet.totalBurned = PrevCall.pre.totalBurned
       /\ wallet.simulationsRun = PrevCall.pre.simulationsRun

C5_Witness ==
    /\ StakeThen("refundStake")
    /\ PrevCall.pre.balance = INITIAL_BALANCE
    /\ PrevCall.amount = 500

\* C6: completeSimulation() with pendingStake = p clears pendingStake, adds
\* floor(p * 0.05) to totalBurned and 1 to simulationsRun and returns p
\* minus that burn to the balance; from balance 1000, stake(500) gives
\* 500 / 500 and completeSimulation() gives null, 975, burned 25, 1 run.
C6_CompleteSettlesStake ==
    /\ (/\ hist # <<>>
        /\ LastCall.op = "completeSimulation"
        /\ LastCall.pre.pendingStake # NO_STAKE)
       => LET p == LastCall.pre.pendingStake
              burn == (p * 5) \div 100
          IN  /\ pendingStake = NO_STAKE
              /\ wallet.totalBurned = LastCall.pre.totalBurned + burn
              /\ wallet.simulationsRun = LastCall.pre.simulationsRun + 1
              /\ wallet.balance = LastCall.pre.balance + (p - burn)
    /\ (/\ StakeThen("completeSimulation")
        /\ PrevCall.amount = 500
        /\ PrevCall.pre = [balance |-> 1000, pendingStake |-> NO_STAKE,
                           totalStaked |-> 0, totalBurned |-> 0,
                           simulationsRun |-> 0])
       => /\ LastCall.pre.balance = 500
          /\ LastCall.pre.pendingStake = 500
          /\ pendingStake = NO_STAKE
          /\ wallet.balance = 975
          /\ wallet.totalBurned = 25
          /\ wallet.simulationsRun = 1

C6_Witness ==
    /\ StakeThen("completeSimulation")
    /\ PrevCall.amount = 500
    /\ PrevCall.pre.balance = 1000
    /\ wallet.balance = 975
    /\ wallet.totalBurned = 25

(***************************************************************************)
(* The frames a run has decoded so far, read off the response itself       *)
(***************************************************************************)
IsData(line) == startsWith(line, DATA_PREFIX)
IsGood(e) == e.ok
IsTweet(e) == e.type = "tweet"
IsCompleted(e) == e.type = "experiment_completed"
IsExperiment(e) == e.type \in {"experiment_started", "experiment_completed"}

\* the complete lines among the pieces handed out
DeliveredLines == Front(split(SubSeq(stream, 1, pos)))

\* their 'data: ' payloads, parsed
Parsed ==
    LET d == SelectSeq(DeliveredLines, IsData)
    IN  [i \in 1..Len(d) |-> JSONParse(slice(d[i], DATA_PREFIX_LEN))]

\* the well-formed ones
GoodEvents == SelectSeq(Parsed, IsGood)

Has(type) == \E i \in 1..Len(GoodEvents) : GoodEvents[i].type = type

\* a run of Home is over
HomeRunOver ==
    /\ view = "home"
    /\ runStake # NO_RUN
    /\ pc = "idle"
    /\ ~isRunning

\* C7: after a staked run in which a result frame was received, the stake
\* is returned minus the 5% burn: once the run has ended, pendingStake is
\* null and balance is the pre-stake balance minus floor(stake * 0.05).
C7_ResultReturnsStakeMinusBurn ==
    (HomeRunOver /\ result # NULL)
    => /\ pendingStake = NO_STAKE
       /\ wallet.balance =
            runStake.before - ((runStake.amount * 5) \div 100)

\* C8: when a staked run ends in a fatal error (failed request, missing
\* body, read failure, error frame), the stake is refunded: once the run
\* is over, pendingStake is null and balance is the pre-stake balance.
C8_FatalErrorRefundsStake ==
    (HomeRunOver
       /\ error \in FetchFailures \cup {"network error", ERROR_MESSAGE})
    => /\ pendingStake = NO_STAKE
       /\ wallet.balance = runStake.before

\* C9: in the single-simulation decoder an error frame is fatal: once it
\* is read its message is the error shown and consumption has stopped, so
\* the run is never still reading with an error frame behind it.
C9_ErrorFrameStopsStream ==
    (view = "home" /\ pc = "reading") => ~Has("error")

\* C10: a 'data: ' line whose payload does not parse changes no state and
\* surfaces no error, and the well-formed frames after it are dispatched,
\* in the single-simulation decoder and in the harness decoder: while a
\* run reads, the page shows exactly what the well-formed frames delivered
\* so far make it show.
C10_ParseFailureSkipped ==
    /\ error # "SyntaxError"
    /\ (view = "home" /\ pc = "reading")
       => /\ LET t == SelectSeq(GoodEvents, IsTweet)
             IN  tweets = [i \in 1..Len(t) |-> t[i].arg]
          /\ result = IF Has("result") THEN RESULT ELSE NULL
          /\ progress = IF Has("progress") THEN PROGRESS ELSE NULL
          /\ error = NULL
    /\ (view = "lab" /\ pc = "reading" /\ alone)
       => /\ LET c == SelectSeq(GoodEvents, IsCompleted)
             IN  /\ Len(experiments) = Len(c)
                 /\ \A i \in 1..Len(c) :
                       /\ experiments[i].id = EventId(c[i].arg)
                       /\ experiments[i].status = "completed"
          /\ LET x == SelectSeq(GoodEvents, IsExperiment)
             IN  IF x # <<>> /\ x[Len(x)].type = "experiment_started"
                 THEN /\ currentExperiment.id = EventId(x[Len(x)].arg)
                      /\ currentExperiment.status = "running"
                 ELSE currentExperiment = NO_EXPERIMENT
          /\ error = IF Has("error") THEN ERROR_MESSAGE ELSE NULL

\* a tweet dispatched after a line that did not parse
C10_Witness ==
    /\ view = "home"
    /\ pc = "reading"
    /\ tweets # <<>>
    /\ \E i, j \in 1..Len(Parsed) :
          /\ i < j
          /\ ~Parsed[i].ok
          /\ Parsed[j].ok
          /\ Parsed[j].type = "tweet"

(***************************************************************************)
(* The decoder against the text of the response                            *)
(***************************************************************************)
\* the well-formed frames among the complete lines of a text
EventsOf(text) ==
    LET d == SelectSeq(Front(split(text)), IsData)
        p == [i \in 1..Len(d) |-> JSONParse(slice(d[i], DATA_PREFIX_LEN))]
    IN  SelectSeq(p, IsGood)

\* their tweets
TweetsOf(text) ==
    LET t == SelectSeq(EventsOf(text), IsTweet)
    IN  [i \in 1..Len(t) |-> t[i].arg]

IsPrefix(a, b) == Len(a) <= Len(b) /\ SubSeq(b, 1, Len(a)) = a

\* the page when a run starts
FreshRun ==
    [L |-> Ledger, tweets |-> <<>>, result |-> NULL, progress |-> NULL,
     thrown |-> NULL]

\* the decode loop fed a text in one read
OneChunk(text) == HomeLines(FreshRun, Front(split(text)))

\* C11: decoding is invariant under chunking: however the text read so
\* far was cut into reads, mid-frame included, the page shows what one
\* read of the same text dispatches, and the unfinished line is kept.
C11_ChunkingInvariant ==
    (view = "home" /\ pc = "reading")
    => LET text == SubSeq(stream, 1, pos)
           S == OneChunk(text)
       IN  /\ tweets = S.tweets
           /\ result = S.result
           /\ progress = S.progress
           /\ buffer = split(text)[Len(split(text))]

\* a read has ended inside a frame, after one that was dispatched
C11_Witness ==
    /\ view = "home"
    /\ pc = "reading"
    /\ tweets # <<>>
    /\ buffer # <<>>
    /\ ~IsPrefix(DATA_PREFIX, buffer)

\* C12: frames are delivered in stream order: at every point of a run the
\* post list is the tweets of the well-formed frames read so far, in the
\* order read, and so a prefix of the tweets of the whole stream.
C12_TweetsInStreamOrder ==
    (view = "home" /\ pc = "reading")
    => /\ tweets = TweetsOf(SubSeq(stream, 1, pos))
       /\ IsPrefix(tweets, TweetsOf(stream))

\* two different posts
C12_Witness ==
    /\ view = "home"
    /\ pc = "reading"
    /\ Len(tweets) = 2
    /\ tweets[1] # tweets[2]

(***************************************************************************)
(* The threads groupTweetsIntoThreads returns                              *)
(***************************************************************************)
ThreadsRendered == view = "threads" /\ rendered.done

\* the posts of the threads, one place after another
RECURSIVE Placed(_)
Placed(threads) ==
    IF threads = <<>> THEN <<>>
    ELSE <<Head(threads).parent>> \o Head(threads).replies
           \o Head(threads).quotes \o Placed(Tail(threads))

\* number of places that hold post p
PlacesOf(threads, p) ==
    Cardinality({k \in 1..Len(Placed(threads)) : Placed(threads)[k] = p})

Ids(posts) == {posts[i].id : i \in 1..Len(posts)}

\* the id a reply or a quote names, NULL when it names none
TargetOf(p) ==
    IF p.tweet_type = "reply" THEN p.is_reply_to
    ELSE IF p.tweet_type = "quote" THEN p.quotes_tweet
    ELSE NULL

IsRoot(p) == p.tweet_type = "original" \/ p.tweet_type = NULL

\* the ids of the posts the first pass makes parents
RootIds(posts) ==
    {posts[i].id : i \in {j \in 1..Len(posts) : IsRoot(posts[j])}}

\* p is the parent of a thread
StandsAlone(threads, p) ==
    \E i \in 1..Len(threads) : threads[i].parent = p

\* p is in the replies (a reply) or the quotes (a quote) of the thread of
\* the post it names
AttachedUnderTarget(threads, p) ==
    \E i \in 1..Len(threads) :
        /\ threads[i].parent.id = TargetOf(p)
        /\ LET list == IF p.tweet_type = "reply" THEN threads[i].replies
                       ELSE threads[i].quotes
           IN  \E k \in 1..Len(list) : list[k] = p

\* C13: the threads hold as many posts (parents, replies and quotes over
\* all threads) as the collection: no post is duplicated or dropped.
C13_ThreadsKeepEveryPost ==
    ThreadsRendered => Len(Placed(rendered.value)) = Len(props)

\* a collection with a reply under its parent and a post standing alone
C13_Witness ==
    /\ ThreadsRendered
    /\ Len(props) = MaxPosts
    /\ \E i \in 1..Len(rendered.value) : rendered.value[i].replies # <<>>
    /\ \E i \in 1..Len(rendered.value) :
          ~IsRoot(rendered.value[i].parent)

\* C14 as stated: every post is in exactly one place, and a reply or a
\* quote stands alone only if the id it names is absent from the
\* collection; when that id is present the post is attached under it.
C14_StandaloneOnlyIfTargetAbsent ==
    ThreadsRendered =>
      \A n \in 1..Len(props) :
        LET p == props[n]
        IN  /\ PlacesOf(rendered.value, p) = 1
            /\ ~IsRoot(p) =>
                 /\ StandsAlone(rendered.value, p)
                      => TargetOf(p) \notin Ids(props)
                 /\ TargetOf(p) \in Ids(props)
                      => AttachedUnderTarget(rendered.value, p)

\* C14 as amended: every post is in exactly one place, and a reply or a
\* quote stands alone exactly when the id it names is not the id of an
\* original (or kindless) post of the collection; otherwise it is attached
\* under that post.
C14_StandaloneIffTargetNotRoot ==
    ThreadsRendered =>
      \A n \in 1..Len(props) :
        LET p == props[n]
        IN  /\ PlacesOf(rendered.value, p) = 1
            /\ ~IsRoot(p) =>
                 /\ StandsAlone(rendered.value, p)
                      <=> TargetOf(p) \notin RootIds(props)
                 /\ TargetOf(p) \in RootIds(props)
                      => AttachedUnderTarget(rendered.value, p)

\* a reply to a reply of the collection stands alone
C14_Witness ==
    /\ ThreadsRendered
    /\ \E n \in 1..Len(props) :
          /\ props[n].tweet_type = "reply"
          /\ props[n].is_reply_to \in Ids(props) \ RootIds(props)
          /\ props[n].is_reply_to # props[n].id
          /\ StandsAlone(rendered.value, props[n])
    /\ \E n \in 1..Len(props) :
          /\ ~IsRoot(props[n])
          /\ AttachedUnderTarget(rendered.value, props[n])

\* C15: every original (or kindless) post is a root; the replies of a root
\* are the replies of the collection that name its id, in the order of
\* the collection, and so are its quotes; the posts 1 original, 2 reply to
\* 1, 3 quote of 1, 4 reply to 999 give two threads: root 1 with replies
\* [2] and quotes [3], and root 4 alone.
C15_RepliesAndQuotesUnderRoots ==
    ThreadsRendered =>
      /\ \A n \in 1..Len(props) :
            IsRoot(props[n]) => StandsAlone(rendered.value, props[n])
      /\ \A i \in 1..Len(rendered.value) :
            LET t == rendered.value[i]
                RepliesTo(p) ==
                    p.tweet_type = "reply" /\ p.is_reply_to = t.parent.id
                QuotesOf(p) ==
                    p.tweet_type = "quote" /\ p.quotes_tweet = t.parent.id
            IN  IsRoot(t.parent) =>
                  /\ t.replies = SelectSeq(props, RepliesTo)
                  /\ t.quotes = SelectSeq(props, QuotesOf)
      /\ props = SCENARIO_POSTS =>
            rendered.value =
              << [parent |-> SCENARIO_POSTS[1],
                  replies |-> <<SCENARIO_POSTS[2]>>,
                  quotes |-> <<SCENARIO_POSTS[3]>>],
                 [parent |-> SCENARIO_POSTS[4], replies |-> <<>>,
                  quotes |-> <<>>] >>

C15_Witness ==
    /\ ThreadsRendered
    /\ props = SCENARIO_POSTS
    /\ Len(rendered.value) = 2

(***************************************************************************)
(* The points SentimentChart draws                                         *)
(***************************************************************************)
ChartRendered == view = "chart" /\ rendered.done

\* the posts of hour h
PostsAt(posts, h) ==
    LET AtHour(p) == p.hour = h IN SelectSeq(posts, AtHour)

RECURSIVE SumSentiment(_)
SumSentiment(posts) ==
    IF posts = <<>> THEN 0
    ELSE Head(posts).sentiment + SumSentiment(Tail(posts))

LargestHour(posts) ==
    CHOOSE h \in {posts[i].hour : i \in 1..Len(posts)} :
        \A i \in 1..Len(posts) : posts[i].hour <= h

\* C16: for posts with non-negative integer hours the chart data is empty
\* when there are no posts and otherwise has maxHour + 1 points, one per
\* hour 0..maxHour in ascending order; an hour without posts has sentiment
\* 0 and an hour with posts the arithmetic mean of their sentiments.
C16_OnePointPerHour ==
    ChartRendered =>
      /\ props = <<>> => rendered.value = <<>>
      /\ props # <<>> =>
           /\ Len(rendered.value) = LargestHour(props) + 1
           /\ \A i \in 1..Len(rendered.value) :
                LET point == rendered.value[i]
                    at == PostsAt(props, i - 1)
                IN  /\ point.hour = i - 1
                    /\ at = <<>> => point.sentiment = ZERO
                    /\ at # <<>> =>
                         /\ point.sentiment.den # 0
                         /\ SameNumber(point.sentiment,
                                       Quotient(SumSentiment(at), Len(at)))

\* an hour without posts between two hours with posts, one of them with
\* posts of different sentiments
C16_Witness ==
    /\ ChartRendered
    /\ Len(rendered.value) = 3
    /\ PostsAt(props, 1) = <<>>
    /\ Len(PostsAt(props, 0)) = 2
    /\ PostsAt(props, 0)[1].sentiment # PostsAt(props, 0)[2].sentiment
    /\ rendered.value[2].sentiment = ZERO

(***************************************************************************)
(* The shares PersonaImpact shows                                          *)
(***************************************************************************)
PersonaRendered == view = "persona" /\ rendered.done

RECURSIVE EngagementOf(_)
EngagementOf(posts) ==
    IF posts = <<>> THEN 0
    ELSE Head(posts).likes + Head(posts).retweets + Head(posts).replies
           + EngagementOf(Tail(posts))

PostsOfType(posts, type) ==
    LET OfType(p) == p.author_type = type IN SelectSeq(posts, OfType)

RECURSIVE SumOfShares(_)
SumOfShares(stats) ==
    IF stats = <<>> THEN ZERO
    ELSE Plus(Head(stats).engagementPct, SumOfShares(Tail(stats)))

\* C17 as stated: the engagement shares of the archetypes sum to 1.0 when
\* the total engagement is > 0, and every share is 0 when it is 0.
C17_SharesSumToOne ==
    PersonaRendered =>
      IF EngagementOf(props) > 0
      THEN SameNumber(SumOfShares(rendered.value), Quotient(1, 1))
      ELSE \A i \in 1..Len(rendered.value) :
              rendered.value[i].engagementPct = ZERO

\* C17 as amended: the engagementPct of an archetype is its engagement
\* divided by the total engagement, times 100; the engagementPct of the
\* archetypes sum to 100 when the total engagement is > 0, and every
\* engagementPct is 0 when it is 0.
C17_PercentagesSumToHundred ==
    PersonaRendered =>
      IF EngagementOf(props) > 0
      THEN /\ SameNumber(SumOfShares(rendered.value), Quotient(100, 1))
           /\ \A i \in 1..Len(rendered.value) :
                SameNumber(rendered.value[i].engagementPct,
                    Quotient(100 * EngagementOf(
                                PostsOfType(props, rendered.value[i].type)),
                             EngagementOf(props)))
      ELSE \A i \in 1..Len(rendered.value) :
              rendered.value[i].engagementPct = ZERO

\* three archetypes with engagement 1, 1 and 2, shares 25%, 25% and 50%
C17_Witness ==
    /\ PersonaRendered
    /\ Len(rendered.value) = 3
    /\ EngagementOf(props) = 4
    /\ \A i \in 1..3 : rendered.value[i].totalEngagement > 0

(***************************************************************************)
(* The harness run against the events of its stream                        *)
(***************************************************************************)
\* the only invocation of startHarness is in its read loop
Streaming == view = "lab" /\ pc = "reading" /\ alone

IsRunEnd(e) == e.type \in {"done", "run_completed"}

\* the events of a text up to its first run_completed, that one left out
BeforeRunEnd(events) ==
    LET I == {i \in 1..Len(events) : IsRunEnd(events[i])}
    IN  IF I = {} THEN events
        ELSE SubSeq(events, 1, (CHOOSE i \in I : \A j \in I : i <= j) - 1)

\* the ids of the experiment_completed events, in arrival order
CompletedIds(events) ==
    LET c == SelectSeq(events, IsCompleted)
    IN  [i \in 1..Len(c) |-> EventId(c[i].arg)]

ExperimentIds == [i \in 1..Len(experiments) |-> experiments[i].id]

\* this step is the read in which run_completed arrives
RunCompletedStep ==
    /\ Streaming
    /\ pc' = "idle"
    /\ refreshes' = refreshes + 1

\* started 1, completed 1, started 2, run_completed
SCENARIO_EVENTS == <<"started1", "completed1", "started2", "run_completed">>

\* while the run streams, the list is the experiment_completed events
\* received so far, in arrival order, and no run_completed is among them
C18_ListWhileStreaming ==
    Streaming =>
      /\ ExperimentIds = CompletedIds(GoodEvents)
      /\ \A i \in 1..Len(experiments) : experiments[i].status = "completed"
      /\ ~Has("run_completed")

\* when run_completed arrives the list is the experiments completed
\* before it and the controller is idle
C18_ListAtRunCompleted ==
    RunCompletedStep =>
      /\ ~isRunning'
      /\ \E n \in 1..(Len(stream) - pos) :
            LET events == EventsOf(SubSeq(stream, 1, pos + n))
            IN  /\ \E i \in 1..Len(events) : IsRunEnd(events[i])
                /\ ExperimentIds' = CompletedIds(BeforeRunEnd(events))
      /\ stream = BodyOf(SCENARIO_EVENTS) =>
            /\ Len(experiments') = 1
            /\ experiments'[1].id = EventId("1")

C19_ErrorEventEndsRun ==
    (view = "lab" /\ alone /\ Has("error"))
    => /\ error = ERROR_MESSAGE
       /\ ~isRunning
       /\ pc = "idle"

\* C20: when the harness stream ends, by run_completed or by the end of
\* the stream without one, the controller becomes idle and a refresh of
\* the leaderboard and the insights is triggered.
C20_StreamEndRefreshes ==
    [][(Streaming /\ pc' = "idle" /\ error' = error /\ stops' = stops)
         => (~isRunning' /\ refreshes' = refreshes + 1)]_vars

(***************************************************************************)
(* The ledger across a reload, and the tokens it holds                     *)
(***************************************************************************)
\* C25: the ledger is saved on every mutation and read back on mount:
\* after any sequence of ledger operations followed by a reload, balance,
\* pendingStake, totalStaked, totalBurned and simulationsRun are what they
\* were just before the reload.
C25_RemountRestoresLedger ==
    (hist # <<>> /\ LastCall.op = "remount") => Snapshot = LastCall.pre

\* pendingStake || 0
PendingOrZero == IF pendingStake = NO_STAKE THEN 0 ELSE pendingStake

\* C29: in every state reached by stake, completeSimulation, refundStake
\* and claimFaucet calls since the last reset, balance + (pendingStake or
\* 0) + totalBurned = 1000 + 1000 * (faucet claims that took effect).
C29_TokensConserved ==
    (view = "hook" /\ mounts = 1)
    => wallet.balance + PendingOrZero + wallet.totalBurned
         = INITIAL_BALANCE + INITIAL_BALANCE * claims

\* a settling call that found no pending stake changed nothing
C30_NoPendingNoChange ==
    (/\ hist # <<>>
     /\ LastCall.op \in {"completeSimulation", "refundStake"}
     /\ LastCall.pre.pendingStake = NO_STAKE)
    => Snapshot = LastCall.pre

\* once a run of Home has applied its result frame, no later frame and no
\* failure of that run burns or credits: the balance moves only by the
\* faucet
C30_NoSecondSettlement ==
    (view = "home" /\ pc # "idle" /\ result # NULL)
    => /\ wallet'.totalBurned = wallet.totalBurned
       /\ wallet'.simulationsRun = wallet.simulationsRun
       /\ \/ wallet'.balance = wallet.balance
          \/ wallet.balance <= 0 /\ wallet'.balance = INITIAL_BALANCE

\* C30: each successful stake is settled at most once: completeSimulation
\* and refundStake called with no pending stake change nothing, so a
\* second result frame, or a stream failure after the result frame of the
\* same run, never burns twice and never both burns and refunds.
C30_SettledAtMostOnce ==
    [](C30_NoPendingNoChange) /\ [][C30_NoSecondSettlement]_vars

(***************************************************************************)
(* Stop, and the invocations of startHarness it leaves                     *)
(***************************************************************************)
\* every stopHarness call has returned, and every invocation still
\* executing is one during which stopHarness was called
OnlyCancelledRuns ==
    /\ view = "lab"
    /\ stops = 0
    /\ LiveRuns > 0
    /\ \A i \in DOMAIN Runs : IsLive(Runs[i]) => Runs[i].cancelled

\* this step is not a launch
NoLaunch == traffic' <= traffic + 1

\* C21: stop() in any controller state (Starting or Streaming) leaves the
\* controller idle, and after stop() has returned no frame of the
\* cancelled run updates the experiment list, the in-progress experiment
\* or the batch position.
C21_StopCancelsRun ==
    [][/\ (view = "lab" /\ stops' < stops) => ~isRunning'
       /\ (OnlyCancelledRuns /\ NoLaunch)
          => UNCHANGED <<experiments, currentExperiment, runProgress>>]_vars

\* the invocations in their read loop
Readers == {i \in DOMAIN Runs : Runs[i].pc = "reading"}

\* C22: at most one harness stream is active at a time: under any
\* interleaving of launch, stop and stream events, no two invocations of
\* startHarness are both consuming their stream.
C22_OneStreamAtATime == view = "lab" => Cardinality(Readers) <= 1

\* this step is the rejection of the run request or of the stream request
\* of the only invocation
RejectionStep ==
    /\ view = "lab"
    /\ alone
    /\ pc \in {"starting", "connecting"}
    /\ pc' = "idle"
    /\ stops' = stops

\* C23: if the run request is rejected or the stream cannot be opened, the
\* controller returns from Starting to Idle with the error message shown,
\* the completed-experiments list empty and no stream being consumed.
C23_RejectionGoesIdle ==
    [][RejectionStep
         => /\ ~isRunning'
            /\ error' \in RunFailures \cup StreamFailures
            /\ experiments' = <<>>
            /\ earlier' = <<>>]_vars

\* the run request was rejected with the backend's message
C23_Witness ==
    /\ view = "lab"
    /\ pc = "idle"
    /\ earlier = <<>>
    /\ ~isRunning
    /\ error = "Failed to start harness"
    /\ experiments = <<>>

\* C24: cancellation by stop() is not an error: the stop of a streaming
\* run sets no error message, neither when it is called nor when it
\* returns, and the experiment in progress is abandoned: the run is over
\* and nothing is appended to the completed list.
C24_StopIsNotAnError ==
    [][(view = "lab" /\ stops' # stops)
         => /\ error' = error
            /\ experiments' = experiments
            /\ (Streaming /\ stops' > stops)
               => /\ pc' = "idle"
                  /\ earlier' = <<>>
                  /\ ~isRunning'
                  /\ currentExperiment' = currentExperiment]_vars

\* a streaming run was stopped while an experiment was in progress
C24_Witness ==
    /\ view = "lab"
    /\ stops > 0
    /\ pc = "idle"
    /\ earlier = <<>>
    /\ ~isRunning
    /\ error = NULL
    /\ experiments = <<>>
    /\ currentExperiment.id = EventId("1")

\* the experiment events received so far
ExperimentEvents == SelectSeq(GoodEvents, IsExperiment)

\* the number of experiment_completed events among the first p
CompletedUpTo(p) ==
    Cardinality({q \in 1..p : IsCompleted(ExperimentEvents[q])})

\* C27: on experiment_completed the entry appended to the completed list
\* carries the ticker (and name, strategy, meme style, hook) of the
\* experiment materialized by the preceding experiment_started event of
\* the same run, with the event's score and outcome, and the in-progress
\* slot is cleared.
C27_CompletedCarriesStartedIdea ==
    Streaming =>
      \A p \in 2..Len(ExperimentEvents) :
         (/\ IsCompleted(ExperimentEvents[p])
          /\ ExperimentEvents[p - 1].type = "experiment_started"
          /\ CompletedUpTo(p) <= Len(experiments))
         => /\ experiments[CompletedUpTo(p)].ticker
                 = EventTicker(ExperimentEvents[p - 1].arg)
            /\ experiments[CompletedUpTo(p)].score = EVENT_SCORE
            /\ experiments[CompletedUpTo(p)].outcome = EVENT_OUTCOME
            /\ (p = Len(ExperimentEvents)
                => currentExperiment = NO_EXPERIMENT)

\* C28: whenever the harness controller is idle after a run has ended (by
\* run_completed, end of stream, error or stop), no experiment is tracked
\* as in progress: currentExperiment is null.
C28_IdleHasNoCurrentExperiment ==
    (view = "lab" /\ ~isRunning /\ LiveRuns = 0 /\ stops = 0)
    => currentExperiment = NO_EXPERIMENT

\* C26: for staked harness runs every way a run can end (run_completed,
\* end of stream without it, start rejection or stream failure, stop)
\* settles the stake by completeSimulation or refundStake: pendingStake is
\* null whenever the controller is idle, and stake() is never called for
\* a new run while a previous stake is still pending.
C26_StakeSettledWhenIdle ==
    view = "staked" =>
      /\ (~isRunning /\ LiveRuns = 0 /\ stops = 0)
         => pendingStake = NO_STAKE
      /\ (hist # <<>> /\ LastCall.op = "stake" /\ LastCall.ret)
         => LastCall.pre.pendingStake = NO_STAKE

=============================================================================
